---- MODULE Spec2Model ----
(***************************************************************************)
(* Home.InfoPoint client: the login-session state machine                  *)
(* (HomeInfoPointClient.authenticate / _check_logged_in / get_data) and    *)
(* the HTML extractor of custom_components/home_infopoint/api.py.          *)
(*                                                                         *)
(* Text is modelled at character level: a Python str is a sequence of      *)
(* one-character strings, so that `in`, startswith, endswith, lower and    *)
(* strip are computed as Python computes them.                             *)
(***************************************************************************)
EXTENDS Naturals, Integers, Sequences, FiniteSets, TLC

(***************************************************************************)
(* Bounds of the model                                                     *)
(***************************************************************************)
\* number of <input> tags drawn for a form in SpecForm
MaxInputs == 3
\* number of <tr> rows drawn for the table of a data page in SpecExtract
MaxRows == 2
\* number of heading and table nodes drawn for a data page in SpecGrades
MaxNodes == 3

(***************************************************************************)
(* Python str operations                                                   *)
(***************************************************************************)
\* An optional value (a tag attribute that may be missing, a cursor that may
\* be unset) is a sequence of length 0 or 1: None is <<>>, a present value s
\* is <<s>>.
None == <<>>

Some(s) == <<s>>

\* dict.get(key, default) / tag.get(attr, default) on an optional value
GetOr(opt, default) == IF opt = None THEN default ELSE opt[1]

UpperChars == <<"A","B","C","D","E","F","G","H","I","J","K","L","M",
                "N","O","P","Q","R","S","T","U","V","W","X","Y","Z">>

LowerChars == <<"a","b","c","d","e","f","g","h","i","j","k","l","m",
                "n","o","p","q","r","s","t","u","v","w","x","y","z">>

LowerChar(c) ==
  IF \E i \in 1..26 : UpperChars[i] = c
  THEN LowerChars[CHOOSE i \in 1..26 : UpperChars[i] = c]
  ELSE c

\* str.lower()
Lower(s) == [i \in 1..Len(s) |-> LowerChar(s[i])]

\* needle in hay
Contains(hay, needle) ==
  \E i \in 0..(Len(hay) - Len(needle)) :
     SubSeq(hay, i + 1, i + Len(needle)) = needle

\* hay.startswith(prefix)
StartsWith(hay, prefix) ==
  /\ Len(prefix) <= Len(hay)
  /\ SubSeq(hay, 1, Len(prefix)) = prefix

\* hay.endswith(suffix)
EndsWith(hay, suffix) ==
  /\ Len(suffix) <= Len(hay)
  /\ SubSeq(hay, Len(hay) - Len(suffix) + 1, Len(hay)) = suffix

IsSpace(c) == c \in {" ", "\n", "\t"}

\* str.strip(): leading and trailing whitespace removed
Strip(s) ==
  LET keep == {i \in 1..Len(s) : ~IsSpace(s[i])}
  IN  IF keep = {} THEN <<>>
      ELSE LET lo == CHOOSE i \in keep : \A j \in keep : i <= j
               hi == CHOOSE i \in keep : \A j \in keep : j <= i
           IN  SubSeq(s, lo, hi)

\* str.strip(ch) for a single character ch
StripChar(s, ch) ==
  LET keep == {i \in 1..Len(s) : s[i] # ch}
  IN  IF keep = {} THEN <<>>
      ELSE LET lo == CHOOSE i \in keep : \A j \in keep : i <= j
               hi == CHOOSE i \in keep : \A j \in keep : j <= i
           IN  SubSeq(s, lo, hi)

\* concatenation of a sequence of strings ("".join)
RECURSIVE Join(_)
Join(ss) == IF ss = <<>> THEN <<>> ELSE Head(ss) \o Join(Tail(ss))

(***************************************************************************)
(* String literals of api.py                                               *)
(***************************************************************************)
Abmelden == <<"A","b","m","e","l","d","e","n">>

Logout == <<"L","o","g","o","u","t">>

fehler == <<"f","e","h","l","e","r">>

falsch == <<"f","a","l","s","c","h">>

nicht_erfolgreich ==
  <<"n","i","c","h","t"," ","e","r","f","o","l","g","r","e","i","c","h">>

err_eq == <<"e","r","r","=">>

error_eq == <<"e","r","r","o","r","=">>

http == <<"h","t","t","p">>

slash == <<"/">>

default_php == <<"d","e","f","a","u","l","t",".","p","h","p">>

getdata_php == <<"g","e","t","d","a","t","a",".","p","h","p">>

submit == <<"s","u","b","m","i","t">>

user == <<"u","s","e","r">>

login == <<"l","o","g","i","n">>

pass == <<"p","a","s","s">>

username == <<"u","s","e","r","n","a","m","e">>

password == <<"p","a","s","s","w","o","r","d">>

Anmelden == <<"A","n","m","e","l","d","e","n">>

\* the credentials the client was constructed with
Username == <<"b","o","b">>

Password == <<"p","w","1">>

(***************************************************************************)
(* HomeInfoPointClient.__init__                                            *)
(***************************************************************************)
\* self._url: the supplied URL, a "/" appended unless it already ends in one
NormalizeUrl(u) == IF ~EndsWith(u, slash) THEN u \o slash ELSE u

(***************************************************************************)
(* authenticate: the login form                                            *)
(***************************************************************************)
\* soup.find("form"): the first form of the page, None when there is none
FindForm(page) == IF page.forms = <<>> THEN None ELSE Some(page.forms[1])

\* the URL the login page is fetched from
StartUrl(url) == url \o default_php

\* the POST target
PostUrl(url, action) ==
  IF action = None \/ action = Some(<<>>) THEN StartUrl(url)
  ELSE IF StartsWith(action[1], http) THEN action[1]
  ELSE url \o action[1]

\* dict item assignment data[name] = value
DictSet(data, name, value) ==
  [n \in (DOMAIN data) \cup {name} |-> IF n = name THEN value ELSE data[n]]

EmptyDict == [n \in {} |-> <<>>]

\* the "user"/"login" test without its guard against "pass"
FieldValue_user_first(inp) ==
  LET name       == inp.name[1]
      input_type == Lower(GetOr(inp.type, <<>>))
      value      == GetOr(inp.value, <<>>)
      lname      == Lower(name)
  IN  IF input_type = submit THEN value
      ELSE IF Contains(lname, user) \/ Contains(lname, login) THEN Username
      ELSE IF Contains(lname, pass) THEN Password
      ELSE value

\* the value assigned to a named input
FieldValue(inp) ==
  LET name       == inp.name[1]
      input_type == Lower(GetOr(inp.type, <<>>))
      value      == GetOr(inp.value, <<>>)
      lname      == Lower(name)
  IN  IF input_type = submit THEN value
      ELSE IF (Contains(lname, user) \/ Contains(lname, login))
              /\ ~Contains(lname, pass) THEN Username
      ELSE IF Contains(lname, pass) THEN Password
      ELSE value

\* one iteration of the loop over form.find_all("input")
ClassifyInput(data, inp) ==
  IF inp.name = None \/ inp.name = Some(<<>>) THEN data
  ELSE DictSet(data, inp.name[1], FieldValue(inp))

\* the whole loop
RECURSIVE FormData(_, _)
FormData(data, inputs) ==
  IF inputs = <<>> THEN data
  ELSE FormData(ClassifyInput(data, Head(inputs)), Tail(inputs))

\* the fallback fields
Fallback(data) ==
  LET d1 == IF username \notin DOMAIN data /\ user \notin DOMAIN data
            THEN DictSet(data, username, Username) ELSE data
      d2 == IF password \notin DOMAIN d1
            THEN DictSet(d1, password, Password) ELSE d1
  IN  IF login \notin DOMAIN d2 THEN DictSet(d2, login, Anmelden) ELSE d2

(***************************************************************************)
(* authenticate: the verdict on the login POST's response                  *)
(***************************************************************************)
\* a lenient test: any page that shows no failure marker counts as logged in
HasLogoutMarker_lenient(text) ==
  \/ Contains(text, Abmelden) \/ Contains(text, Logout)
  \/ ~(\/ Contains(Lower(text), fehler) \/ Contains(Lower(text), falsch)
       \/ Contains(Lower(text), nicht_erfolgreich))

\* a test that knows the German marker only
HasLogoutMarker_german(text) == Contains(text, Abmelden)

\* _check_logged_in's test of a page body
HasLogoutMarker(text) == Contains(text, Abmelden) \/ Contains(text, Logout)

\* the failure markers tested before the logout marker
PostVerdict_errors_first(post_text, final_url) ==
  IF \/ Contains(Lower(post_text), fehler)
     \/ Contains(Lower(post_text), falsch)
     \/ Contains(Lower(post_text), nicht_erfolgreich) THEN "false"
  ELSE IF Contains(final_url, err_eq) \/ Contains(final_url, error_eq)
       THEN "false"
  ELSE IF Contains(post_text, Abmelden) \/ Contains(post_text, Logout)
       THEN "true"
  ELSE "check"

\* the failure markers tested in the case they are written in
PostVerdict_case_sensitive(post_text, final_url) ==
  IF Contains(post_text, Abmelden) \/ Contains(post_text, Logout) THEN "true"
  ELSE IF \/ Contains(post_text, fehler)
          \/ Contains(post_text, falsch)
          \/ Contains(post_text, nicht_erfolgreich) THEN "false"
  ELSE IF Contains(final_url, err_eq) \/ Contains(final_url, error_eq)
       THEN "false"
  ELSE "check"

\* "true" / "false": authenticate returns at once; "check": it goes on to
\* the follow-up _check_logged_in
PostVerdict(post_text, final_url) ==
  IF Contains(post_text, Abmelden) \/ Contains(post_text, Logout) THEN "true"
  ELSE IF \/ Contains(Lower(post_text), fehler)
          \/ Contains(Lower(post_text), falsch)
          \/ Contains(Lower(post_text), nicht_erfolgreich) THEN "false"
  ELSE IF Contains(final_url, err_eq) \/ Contains(final_url, error_eq)
       THEN "false"
  ELSE "check"

(***************************************************************************)
(* get_data: the data page and its three extractor passes                  *)
(*                                                                         *)
(* A data page is the sequence of its nodes in document order.  A node is  *)
(* a record [tag, text, headers, rows]: tag is "text" (a bare text node),  *)
(* "h3", "b", "strong" (text is the raw text of the element) or "table"    *)
(* (headers: the raw texts of its <th> cells, rows: for each <tr> the raw  *)
(* texts of its <td> cells).                                               *)
(***************************************************************************)
aktualisiert_am ==
  <<"a","k","t","u","a","l","i","s","i","e","r","t"," ","a","m">>

Connected == <<"C","o","n","n","e","c","t","e","d">>

Unknown == <<"U","n","k","n","o","w","n">>

Fehltage == <<"F","e","h","l","t","a","g","e">>

Unentschuldigte ==
  <<"U","n","e","n","t","s","c","h","u","l","d","i","g","t","e">>

Unentschuldigte_Fehltage == Unentschuldigte \o <<" ">> \o Fehltage

Fehlstunden == <<"F","e","h","l","s","t","u","n","d","e","n">>

Unentschuldigte_Fehlstunden == Unentschuldigte \o <<" ">> \o Fehlstunden

Notenspiegel == <<"N","o","t","e","n","s","p","i","e","g","e","l">>

Endnoten == <<"E","n","d","n","o","t","e","n">>

Legende == <<"L","e","g","e","n","d","e">>

Zensur == <<"Z","e","n","s","u","r">>

Datum == <<"D","a","t","u","m">>

HeadingTags == {"h3", "b", "strong"}

\* tag.get_text() of one node
NodeText(el) ==
  IF el.tag = "table"
  THEN Join(el.headers) \o Join([i \in 1..Len(el.rows) |-> Join(el.rows[i])])
  ELSE el.text

\* soup.get_text()
PageText(page) == Join([i \in 1..Len(page) |-> NodeText(page[i])])

\* index of the first occurrence of sep in s, 0 when there is none
Find(s, sep) ==
  LET at == {i \in 1..(Len(s) - Len(sep) + 1) :
               SubSeq(s, i, i + Len(sep) - 1) = sep}
  IN  IF at = {} THEN 0 ELSE CHOOSE i \in at : \A j \in at : i <= j

\* s.split(sep)[0]
SplitHead(s, sep) ==
  IF Find(s, sep) = 0 THEN s ELSE SubSeq(s, 1, Find(s, sep) - 1)

\* s.split(sep)[1], for s containing sep
SplitSecond(s, sep) ==
  SplitHead(SubSeq(s, Find(s, sep) + Len(sep), Len(s)), sep)

\* s.split(): the whitespace-delimited tokens; only the first is used.
\* None stands for the IndexError of [0] on an empty list.
FirstToken(s) ==
  LET t  == Strip(s)
      ws == {i \in 1..Len(t) : IsSpace(t[i])}
  IN  IF t = <<>> THEN None
      ELSE IF ws = {} THEN Some(t)
      ELSE Some(SubSeq(t, 1, (CHOOSE i \in ws : \A j \in ws : i <= j) - 1))

\* pass 1: data["last_update"]
LastUpdate(page) ==
  LET page_text == PageText(page)
  IN  IF Contains(page_text, aktualisiert_am)
      THEN LET tok == FirstToken(Strip(SplitSecond(page_text, aktualisiert_am)))
           IN  IF tok = None THEN Unknown
               ELSE SplitHead(StripChar(StripChar(tok[1], "\""), "'"), <<"<">>)
      ELSE Connected

Digits == <<"0","1","2","3","4","5","6","7","8","9">>

IsDigit(c) == \E i \in 1..10 : Digits[i] = c

DigitValue(c) == (CHOOSE i \in 1..10 : Digits[i] = c) - 1

RECURSIVE DecimalValue(_)
DecimalValue(s) ==
  IF s = <<>> THEN 0
  ELSE 10 * DecimalValue(SubSeq(s, 1, Len(s) - 1)) + DigitValue(s[Len(s)])

\* int(s): None stands for the ValueError of a non-numeric literal
ParseInt(s) ==
  LET t    == Strip(s)
      sign == t # <<>> /\ t[1] \in {"+", "-"}
      body == IF sign THEN Tail(t) ELSE t
  IN  IF body = <<>> \/ \E i \in 1..Len(body) : ~IsDigit(body[i]) THEN None
      ELSE IF sign /\ t[1] = "-" THEN Some(0 - DecimalValue(body))
      ELSE Some(DecimalValue(body))

\* an absences dict that starts empty and gets a key only when its row is met
DefaultAbsences_lazy == [k \in {} |-> 0]

\* the defaults data["absences"] starts from
DefaultAbsences ==
  [days |-> 0, unexcused_days |-> 0, hours |-> <<"0">>,
   unexcused_hours |-> <<"0">>]

\* [td.get_text(strip=True) for td in row.find_all("td")]
Cols(row) == [i \in 1..Len(row) |-> Strip(row[i])]

\* One row of a matching table.  The state of the pass is
\* [raised, absences]; raised records a ValueError of int(), after which
\* nothing more is executed.
AbsenceRow(st, row) ==
  LET cols == Cols(row)
  IN  IF st.raised \/ cols = <<>> THEN st
      ELSE IF cols[1] = Fehltage /\ Len(cols) > 1
      THEN IF ParseInt(cols[2]) = None THEN [st EXCEPT !.raised = TRUE]
           ELSE [st EXCEPT !.absences = DictSet(@, "days", ParseInt(cols[2])[1])]
      ELSE IF cols[1] = Unentschuldigte_Fehltage /\ Len(cols) > 1
      THEN IF ParseInt(cols[2]) = None THEN [st EXCEPT !.raised = TRUE]
           ELSE [st EXCEPT !.absences = DictSet(@, "unexcused_days", ParseInt(cols[2])[1])]
      ELSE IF cols[1] = Fehlstunden /\ Len(cols) > 1
      THEN [st EXCEPT !.absences = DictSet(@, "hours", cols[2])]
      ELSE IF cols[1] = Unentschuldigte_Fehlstunden /\ Len(cols) > 1
      THEN [st EXCEPT !.absences = DictSet(@, "unexcused_hours", cols[2])]
      ELSE st

RECURSIVE AbsenceRows(_, _)
AbsenceRows(st, rows) ==
  IF rows = <<>> THEN st
  ELSE AbsenceRows(AbsenceRow(st, Head(rows)), Tail(rows))

\* a test that asks for "Fehltage" only
IsAbsenceTable_fehltage_only(el) ==
  /\ el.tag = "table"
  /\ Contains(NodeText(el), Fehltage)

\* the test that makes a table an absence table
IsAbsenceTable(el) ==
  /\ el.tag = "table"
  /\ Contains(NodeText(el), Fehltage)
  /\ Contains(NodeText(el), Unentschuldigte)

\* pass 2: the loop over soup.find_all("table")
RECURSIVE AbsencePass(_, _)
AbsencePass(st, page) ==
  IF page = <<>> THEN st
  ELSE AbsencePass(IF IsAbsenceTable(Head(page))
                   THEN AbsenceRows(st, Head(page).rows) ELSE st,
                   Tail(page))

\* a filter that knows the length rule only
IsSubjectHeading_length_only(text) == Len(text) > 2

\* a heading that is not filtered out as noise
IsSubjectHeading(text) ==
  /\ Len(text) > 2
  /\ ~Contains(text, Notenspiegel)
  /\ ~Contains(text, Endnoten)
  /\ ~Contains(text, Legende)

\* rows with an empty grade cell emitted as well
RECURSIVE GradeRows_keep_empty(_, _)
GradeRows_keep_empty(subject, rows) ==
  IF rows = <<>> THEN <<>>
  ELSE LET cols == [i \in 1..Len(Head(rows)) |-> Strip(Head(rows)[i])]
       IN  (IF Len(cols) >= 3
            THEN << [subject |-> subject, date |-> cols[1],
                     grade |-> cols[2], comment |-> cols[3]] >>
            ELSE <<>>) \o GradeRows_keep_empty(subject, Tail(rows))

\* the entries of one grade table, in row order
RECURSIVE GradeRows(_, _)
GradeRows(subject, rows) ==
  IF rows = <<>> THEN <<>>
  ELSE LET cols == Cols(Head(rows))
       IN  (IF Len(cols) >= 3 /\ cols[2] # <<>>
            THEN << [subject |-> subject, date |-> cols[1],
                     grade |-> cols[2], comment |-> cols[3]] >>
            ELSE <<>>) \o GradeRows(subject, Tail(rows))

\* the cursor cleared once a grade table has been processed (the line the
\* source keeps commented out)
GradeStep_reset(st, el) ==
  IF el.tag \in HeadingTags
  THEN IF IsSubjectHeading(Strip(el.text))
       THEN [st EXCEPT !.current_subject = Some(Strip(el.text))]
       ELSE st
  ELSE IF el.tag = "table"
  THEN IF st.current_subject = None THEN st
       ELSE LET headers == Cols(el.headers)
            IN  IF (\E i \in 1..Len(headers) : headers[i] = Zensur)
                   /\ (\E i \in 1..Len(headers) : headers[i] = Datum)
                THEN [st EXCEPT !.grades =
                        @ \o GradeRows(st.current_subject[1], el.rows),
                                !.current_subject = None]
                ELSE st
  ELSE st

\* One node of the walk.  The state is [current_subject, grades].
GradeStep(st, el) ==
  IF el.tag \in HeadingTags
  THEN IF IsSubjectHeading(Strip(el.text))
       THEN [st EXCEPT !.current_subject = Some(Strip(el.text))]
       ELSE st
  ELSE IF el.tag = "table"
  THEN IF st.current_subject = None THEN st
       ELSE LET headers == Cols(el.headers)
            IN  IF (\E i \in 1..Len(headers) : headers[i] = Zensur)
                   /\ (\E i \in 1..Len(headers) : headers[i] = Datum)
                THEN [st EXCEPT !.grades =
                        @ \o GradeRows(st.current_subject[1], el.rows)]
                ELSE st
  ELSE st

\* pass 3: the walk over soup.find_all(['h3', 'b', 'strong', 'table'])
RECURSIVE GradeWalk(_, _)
GradeWalk(st, page) ==
  IF page = <<>> THEN st
  ELSE GradeWalk(GradeStep(st, Head(page)), Tail(page))

\* What get_data does with the data page: the dict it returns, or the
\* exception that leaves it.
Extract(page) ==
  LET abs == AbsencePass([raised |-> FALSE, absences |-> DefaultAbsences], page)
  IN  IF abs.raised
      THEN [kind |-> "raise", exc |-> "ValueError", data |-> <<>>]
      ELSE [kind |-> "return", exc |-> "",
            data |-> [last_update |-> LastUpdate(page),
                      absences    |-> abs.absences,
                      grades      |-> GradeWalk([current_subject |-> None,
                                                 grades |-> <<>>], page).grades]]

(***************************************************************************)
(* The portal: what a request may be answered with                         *)
(***************************************************************************)
\* the base URLs a client may be constructed with
SuppliedUrls ==
  { <<"h","t","t","p",":","/","/","s">>,
    <<"h","t","t","p",":","/","/","s","/">>,
    <<"h","t","t","p",":","/","/","s","/","/">> }

\* fragments the body of a response is built from
Fragments ==
  { <<>>, Abmelden, Logout, <<"l","o","g","o","u","t">>,
    <<"F","e","h","l","e","r">>, <<"F","A","L","S","C","H">>,
    nicht_erfolgreich, <<"o","k">> }

\* bodies of the response to the login POST
PostBodies == { a \o b : a \in Fragments, b \in {<<>>, Abmelden, fehler} }

\* the query strings the final URL of the login POST may carry
Queries == { <<>>, <<"?">> \o err_eq \o <<"1">>, <<"?">> \o error_eq \o <<"1">>,
             <<"?">> \o <<"o","k","=","1">> }

Input(name, type, value) == [name |-> name, type |-> type, value |-> value]

Form(action, inputs) == [action |-> action, inputs |-> inputs]

login_php == <<"l","o","g","i","n",".","p","h","p">>

StdInputs ==
  << Input(Some(username), Some(<<"t","e","x","t">>), None),
     Input(Some(password), Some(password), None),
     Input(Some(login), Some(submit), Some(Anmelden)) >>

\* login pages served at default.php
LoginPages ==
  { [forms |-> <<>>],
    [forms |-> << Form(Some(login_php), StdInputs) >>],
    [forms |-> << Form(None, StdInputs) >>],
    [forms |-> << Form(Some(http \o <<":","/","/","o","/">> \o login_php),
                       << Input(Some(<<"u","s","r">>), None, None),
                          Input(Some(<<"p","w","d">>), None, None) >>),
                  Form(Some(login_php), StdInputs) >>] }

text_type == <<"t","e","x","t">>

\* the <input> tags the forms of SpecForm are built from
InputPool ==
  { Input(Some(username), Some(text_type), None),
    Input(Some(<<"P","a","s","s","w","o","r","d">>), Some(password), None),
    Input(Some(<<"U","s","e","r","P","a","s","s">>), None, Some(<<"x">>)),
    Input(Some(login), Some(<<"S","U","B","M","I","T">>), Some(<<"G","o">>)),
    Input(Some(login), Some(text_type), None),
    Input(Some(<<"c","s","r","f">>), Some(<<"h","i","d","d","e","n">>),
          Some(<<"t","o","k">>)),
    Input(None, Some(text_type), Some(<<"x">>)),
    Input(Some(user), Some(text_type), Some(<<"x">>)) }

\* all sequences over S of length at most n
RECURSIVE SeqsUpTo(_, _)
SeqsUpTo(S, n) ==
  IF n = 0 THEN { <<>> }
  ELSE LET shorter == SeqsUpTo(S, n - 1)
       IN  shorter \cup { Append(q, x) : q \in shorter, x \in S }

\* the action attributes the forms of SpecForm declare
Actions ==
  { None, Some(<<>>), Some(login_php), Some(slash \o login_php),
    Some(http \o <<":","/","/","o","/">> \o login_php),
    Some(http \o <<"s",":","/","/","o","/">> \o login_php),
    Some(http \o <<"d","o","c","s","/">> \o login_php) }

\* login pages of SpecForm: every action with the standard inputs, and every
\* sequence of at most MaxInputs pool inputs with the standard action
FormPages ==
  { [forms |-> << Form(a, StdInputs) >>] : a \in Actions }
  \cup { [forms |-> << Form(Some(login_php), q) >>] :
           q \in SeqsUpTo(InputPool, MaxInputs) }

Heading(tag, text) ==
  [tag |-> tag, text |-> text, headers |-> <<>>, rows |-> <<>>]

Table(headers, rows) ==
  [tag |-> "table", text |-> <<>>, headers |-> headers, rows |-> rows]

Stand ==
  Heading("text", aktualisiert_am \o <<" ","0","1",".","0","2","."," ">>)

Bemerkung == <<"B","e","m","e","r","k","u","n","g">>

Mathematik == <<"M","a","t","h","e","m","a","t","i","k">>

GradeTable ==
  Table(<<Datum, Zensur, Bemerkung>>,
        << <<>>, << <<"0","1",".","0","2",".">>, <<"2">>, <<"g","u","t">> >>,
           << <<"0","3",".","0","2",".">>, <<>>, <<>> >> >>)

FullAbsenceTable ==
  Table(<<>>, << <<Fehltage, <<"5">>>>, <<Unentschuldigte_Fehltage, <<"2">>>>,
                 <<Fehlstunden, <<"1","0">>>>,
                 <<Unentschuldigte_Fehlstunden, <<"3">>>> >>)

\* data pages served at getdata.php
DataPages ==
  { <<>>,
    << Heading("text", <<"o","k">>) >>,
    << Stand, FullAbsenceTable, Heading("b", Mathematik), GradeTable >>,
    << Table(<<>>, << <<Fehltage, <<"5">>>>, <<Fehlstunden, <<"1",",","5">>>> >>) >>,
    << Table(<<>>, << <<Unentschuldigte_Fehltage, <<" ","4"," ">>>> >>), GradeTable >>,
    << Table(<<>>, << <<Unentschuldigte_Fehltage, <<"-">>>>,
                      <<Fehltage, <<"7">>>> >>) >> }

\* the <tr> rows the tables of SpecExtract are built from
RowPool ==
  { <<>>,
    << Fehltage, <<"5">> >>,
    << Fehltage, <<"x">> >>,
    << Fehltage >>,
    << <<" ">> \o Fehltage \o <<" ">>, <<"7">> >>,
    << Unentschuldigte_Fehltage, <<" ","2"," ">> >>,
    << Fehlstunden, <<"1",",","5">> >>,
    << Unentschuldigte_Fehlstunden, <<"3">> >>,
    << <<"0","1",".","0","2",".">>, <<"2">>, <<"g","u","t">> >>,
    << <<"0","3",".","0","2",".">>, <<" ">>, <<>> >> }

\* data pages of SpecExtract: an optional text node, an optional heading
\* and one table of at most MaxRows pool rows, with or without the grade
\* table's header cells
ExtractPages ==
  DataPages \cup
  { t \o h \o << Table(th, rows) >> :
      t \in { <<>>, << Stand >> },
      h \in { <<>>, << Heading("b", Mathematik) >>,
              << Heading("h3", Notenspiegel) >> },
      th \in { <<>>, <<Datum, Zensur, Bemerkung>> },
      rows \in SeqsUpTo(RowPool, MaxRows) }

\* the heading and table nodes the pages of SpecGrades are built from
NodePool ==
  { Heading("b", Mathematik),
    Heading("strong", <<" ","B","i","o"," ">>),
    Heading("h3", Notenspiegel),
    Heading("b", Endnoten \o <<" ","1">>),
    Heading("strong", <<"M","a">>),
    GradeTable,
    Table(<<Datum, Bemerkung>>,
          << << <<"0","1",".","0","2",".">>, <<"4">>, <<"o","k">> >> >>),
    Table(<<Zensur, Datum>>,
          << << <<"0","5",".","0","2",".">>, <<"3">> >>,
             << <<"0","6",".","0","2",".">>, <<" ","1","-"," ">>, <<>>,
                <<"x">> >> >>) }

\* data pages of SpecGrades
GradePages == SeqsUpTo(NodePool, MaxNodes)

(***************************************************************************)
(* State: one get_data call of one client                                  *)
(***************************************************************************)
VARIABLES
  pc,          \* where the get_data call stands
  url,         \* self._url
  requests,    \* the HTTP requests issued so far, in order
  calls,       \* the client methods entered so far, in order
  probe,       \* what the login probe returned: "none", "true", "false"
  auth,        \* what authenticate returned: "none", "true", "false"
  outcome,     \* how get_data ended
  probe_text,  \* body of the response to the probe's GET
  login_page,  \* the login page authenticate received
  post_resp,   \* [text, url]: body and final URL of the login POST's response
  confirm_text,\* body of the response to authenticate's follow-up GET
  data_page,   \* the data page get_data received
  flow,        \* the config flow's step: "none" when the caller is get_data
  update,      \* how the coordinator's _async_update_data ended
  entities,    \* the sensors async_setup_entry added, None before it ran
  walk,        \* the grades walk of SpecGrades, node by node
  sess         \* the clients and the HTTP sessions of SpecSession

vars == <<pc, url, requests, calls, probe, auth, outcome,
          probe_text, login_page, post_resp, confirm_text, data_page,
          flow, update, entities, walk, sess>>

\* the state outside one client call
beyond == <<update, entities, walk, sess>>

received == <<probe_text, login_page, post_resp, confirm_text, data_page>>

Get(u) == [method |-> "GET", url |-> u, data |-> EmptyDict, referer |-> None]

Post(u, data, referer) ==
  [method |-> "POST", url |-> u, data |-> data, referer |-> Some(referer)]

NoOutcome == [kind |-> "none", exc |-> "", data |-> <<>>]

\* raise Exception("Authentication failed")
AuthenticationFailed ==
  [kind |-> "raise", exc |-> "Exception: Authentication failed", data |-> <<>>]

\* an exception of the transport (aiohttp.ClientError) leaving get_data
ClientError == [kind |-> "raise", exc |-> "ClientError", data |-> <<>>]

DataUrl(u) == u \o getdata_php

NoUpdate == [kind |-> "none", exc |-> "", cause |-> "", data |-> <<>>]

NoWalk ==
  [page |-> <<>>, i |-> 0, current_subject |-> None, grades |-> <<>>,
   cursors |-> <<>>, emitted |-> <<>>]

\* the two places that construct a HomeInfoPointClient
Clients == {"validate_input", "coordinator"}

\* the aiohttp sessions there are: async_get_clientsession(hass) hands out
\* the one session Home Assistant keeps per hass instance
Sessions == {"hass"}

async_get_clientsession == "hass"

\* session: the session each constructed client holds; jar: whether the
\* portal's cookie in a session is a logged-in one; seen, auth: what
\* _check_logged_in and authenticate last returned to each client
NoSess ==
  [session |-> [c \in Clients |-> None],
   jar     |-> [x \in Sessions |-> "anonymous"],
   seen    |-> [c \in Clients |-> "none"],
   auth    |-> [c \in Clients |-> "none"]]

\* the state outside the client before anything ran
BeyondInit ==
  /\ update = NoUpdate
  /\ entities = None
  /\ walk = NoWalk
  /\ sess = NoSess

Init ==
  /\ pc = "idle"
  /\ url \in {NormalizeUrl(u) : u \in SuppliedUrls}
  /\ requests = <<>>
  /\ calls = <<>>
  /\ probe = "none"
  /\ auth = "none"
  /\ outcome = NoOutcome
  /\ probe_text = None
  /\ login_page = None
  /\ post_resp = None
  /\ confirm_text = None
  /\ data_page = None
  /\ flow = "none"
  /\ BeyondInit

\* get_data is called: _check_logged_in issues its GET
GetDataBegin ==
  /\ pc = "idle"
  /\ pc' = "probe"
  /\ calls' = Append(calls, "_check_logged_in")
  /\ requests' = Append(requests, Get(StartUrl(url)))
  /\ UNCHANGED <<url, probe, auth, outcome, received, flow, beyond>>

\* the probe's page arrives; get_data goes on to the data page or enters
\* authenticate, which fetches the login page
ProbeResponse ==
  /\ pc = "probe"
  /\ \E text \in Fragments :
       /\ probe_text' = Some(text)
       /\ IF HasLogoutMarker(text)
          THEN /\ probe' = "true"
               /\ pc' = "data"
               /\ requests' = Append(requests, Get(DataUrl(url)))
               /\ calls' = calls
          ELSE /\ probe' = "false"
               /\ pc' = "login_page"
               /\ calls' = Append(calls, "authenticate")
               /\ requests' = Append(requests, Get(StartUrl(url)))
  /\ UNCHANGED <<url, auth, outcome, login_page, post_resp, confirm_text,
                 data_page, flow, beyond>>

\* a slip that goes on to the data page although authenticate returned False
AuthFalse_ignored ==
  /\ auth' = "false"
  /\ pc' = "data"
  /\ requests' = Append(requests, Get(DataUrl(url)))
  /\ outcome' = outcome

\* a retry: get_data enters authenticate again when it returned False
AuthFalse_retry ==
  /\ auth' = "false"
  /\ pc' = "login_page"
  /\ requests' = Append(requests, Get(StartUrl(url)))
  /\ outcome' = outcome

\* authenticate returned False to get_data, which raises
AuthFalse ==
  /\ auth' = "false"
  /\ pc' = "done"
  /\ requests' = requests
  /\ outcome' = AuthenticationFailed

\* authenticate returned True to get_data, which issues the data GET
AuthTrue ==
  /\ auth' = "true"
  /\ pc' = "data"
  /\ requests' = Append(requests, Get(DataUrl(url)))
  /\ outcome' = outcome

\* a handler order that catches InvalidAuth under "except Exception"
FlowAuthReturns_unknown(ok) ==
  /\ auth' = IF ok THEN "true" ELSE "false"
  /\ pc' = "done"
  /\ requests' = requests
  /\ outcome' = outcome
  /\ flow' = IF ok THEN "create_entry" ELSE "unknown"

\* authenticate returned to validate_input: False raises InvalidAuth, which
\* async_step_user turns into the form error "invalid_auth"; True creates
\* the config entry
FlowAuthReturns(ok) ==
  /\ auth' = IF ok THEN "true" ELSE "false"
  /\ pc' = "done"
  /\ requests' = requests
  /\ outcome' = outcome
  /\ flow' = IF ok THEN "create_entry" ELSE "invalid_auth"

\* authenticate returns to its caller
AuthReturns(ok) ==
  IF flow = "pending" THEN FlowAuthReturns(ok)
  ELSE (IF ok THEN AuthTrue ELSE AuthFalse) /\ flow' = flow

\* the login page arrives: the form is located and filled, the POST issued
LoginPageFrom(pages) ==
  /\ pc = "login_page"
  /\ \E page \in pages :
       /\ login_page' = Some(page)
       /\ LET form == FindForm(page)
          IN  IF form = None
              THEN AuthReturns(FALSE) /\ calls' = calls
              ELSE /\ pc' = "post"
                   /\ requests' =
                        Append(requests,
                               Post(PostUrl(url, form[1].action),
                                    Fallback(FormData(EmptyDict, form[1].inputs)),
                                    StartUrl(url)))
                   /\ UNCHANGED <<auth, outcome, calls, flow>>
  /\ UNCHANGED <<url, probe, probe_text, post_resp, confirm_text, data_page,
                 beyond>>

LoginPageResponse == LoginPageFrom(LoginPages)

\* the response to the login POST arrives
PostResponse ==
  /\ pc = "post"
  /\ \E post_text \in PostBodies, q \in Queries :
       LET final_url == requests[Len(requests)].url \o q
           verdict   == PostVerdict(post_text, final_url)
       IN  /\ post_resp' = Some([text |-> post_text, url |-> final_url])
           /\ CASE verdict = "true"  -> AuthReturns(TRUE) /\ calls' = calls
                [] verdict = "false" -> AuthReturns(FALSE) /\ calls' = calls
                [] OTHER -> /\ pc' = "confirm"
                            /\ calls' = Append(calls, "_check_logged_in")
                            /\ requests' = Append(requests, Get(StartUrl(url)))
                            /\ UNCHANGED <<auth, outcome, flow>>
  /\ UNCHANGED <<url, probe, probe_text, login_page, confirm_text, data_page,
                 beyond>>

\* the page of authenticate's follow-up _check_logged_in arrives
ConfirmResponse ==
  /\ pc = "confirm"
  /\ \E text \in Fragments :
       /\ confirm_text' = Some(text)
       /\ AuthReturns(HasLogoutMarker(text))
  /\ UNCHANGED <<url, probe, calls, probe_text, login_page, post_resp,
                 data_page, beyond>>

\* the data page arrives and is parsed
DataPageFrom(pages) ==
  /\ pc = "data"
  /\ \E page \in pages :
       /\ data_page' = Some(page)
       /\ outcome' = Extract(page)
  /\ pc' = "done"
  /\ UNCHANGED <<url, requests, calls, probe, auth, probe_text, login_page,
                 post_resp, confirm_text, flow, beyond>>

DataResponse == DataPageFrom(DataPages)

\* a request in flight fails in the transport; nothing in get_data or
\* authenticate catches the exception; in the config flow async_step_user
\* catches it as "unknown"
TransportFault ==
  /\ pc \in {"probe", "login_page", "post", "confirm", "data"}
  /\ pc' = "done"
  /\ outcome' = ClientError
  /\ flow' = IF flow = "pending" THEN "unknown" ELSE flow
  /\ UNCHANGED <<url, requests, calls, probe, auth, received, beyond>>

\* what _async_update_data hands to the DataUpdateCoordinator: get_data's
\* dict, or UpdateFailed built from whatever exception left get_data
CoordinatorResult(o) ==
  IF o.kind = "return"
  THEN [kind |-> "return", exc |-> "", cause |-> "", data |-> o.data]
  ELSE [kind |-> "raise", exc |-> "UpdateFailed", cause |-> o.exc,
        data |-> <<>>]

\* get_data has ended inside _async_update_data
UpdateDataEnd ==
  /\ pc = "done"
  /\ flow = "none"
  /\ update = NoUpdate
  /\ update' = CoordinatorResult(outcome)
  /\ UNCHANGED <<pc, url, requests, calls, probe, auth, outcome, received,
                 flow, entities, walk, sess>>

\* the sensors async_setup_entry creates: values, absences and subjects are
\* the keys of the HomeInfoPointSensor, HomeInfoPointAbsenceSensor and
\* HomeInfoPointSubjectSensor entities; u is the coordinator's update
SetupEntities(u) ==
  [values   |-> {"last_update"},
   absences |-> {"days", "unexcused_days", "hours"},
   subjects |-> IF u.kind = "return"
                THEN {u.data.grades[i].subject : i \in 1..Len(u.data.grades)}
                ELSE {}]

\* async_setup_entry of the sensor platform, after the first refresh
SetupEntry ==
  /\ update # NoUpdate
  /\ entities = None
  /\ entities' = Some(SetupEntities(update))
  /\ UNCHANGED <<pc, url, requests, calls, probe, auth, outcome, received,
                 flow, update, walk, sess>>

Next ==
  \/ GetDataBegin
  \/ ProbeResponse
  \/ LoginPageResponse
  \/ PostResponse
  \/ ConfirmResponse
  \/ DataResponse
  \/ TransportFault
  \/ UpdateDataEnd
  \/ SetupEntry

Spec == Init /\ [][Next]_vars

\* a response arrives for the request in flight
Response ==
  \/ ProbeResponse
  \/ LoginPageResponse
  \/ PostResponse
  \/ ConfirmResponse
  \/ DataResponse
  \/ TransportFault

\* Spec for a caller that calls get_data and a portal that answers every
\* request
SpecLive == Spec /\ WF_vars(GetDataBegin) /\ WF_vars(Response)

(***************************************************************************)
(* Properties of get_data, authenticate and _check_logged_in               *)
(***************************************************************************)
\* the logout marker, as the specification words it
ShowsLogout(text) == Contains(text, Abmelden) \/ Contains(text, Logout)

\* a failure marker in any letter case
ShowsFailure(text) ==
  \/ Contains(Lower(text), fehler)
  \/ Contains(Lower(text), falsch)
  \/ Contains(Lower(text), nicht_erfolgreich)

ProbeGet == Get(StartUrl(url))

DataGet == Get(DataUrl(url))

Issued(req) == \E i \in 1..Len(requests) : requests[i] = req

Called(name) == \E i \in 1..Len(calls) : calls[i] = name

\* position of the login POST among the requests, 0 before it is issued
PostIndex ==
  IF \E i \in 1..Len(requests) : requests[i].method = "POST"
  THEN CHOOSE i \in 1..Len(requests) : requests[i].method = "POST"
  ELSE 0

\* the requests issued after the login POST
AfterPost == SubSeq(requests, PostIndex + 1, Len(requests))

\* C1: in get_data the login probe runs first; authenticate is entered only
\* after the probe returned false; the GET of getdata.php is issued only
\* after the probe or authenticate returned true; when both returned false
\* the call ends in the "Authentication failed" exception and getdata.php
\* was never requested.
C1_ProbeThenAuthThenData ==
  /\ calls # <<>> => calls[1] = "_check_logged_in" /\ requests[1] = ProbeGet
  /\ Called("authenticate") => probe = "false"
  /\ Issued(DataGet) => probe = "true" \/ auth = "true"
  /\ (probe = "false" /\ auth = "false") =>
        /\ pc = "done"
        /\ outcome = AuthenticationFailed
        /\ ~Issued(DataGet)

C1_Witness ==
  /\ probe = "false"
  /\ auth = "false"
  /\ confirm_text # None
  /\ outcome = AuthenticationFailed

\* C2: when the body of the login POST's response contains "Abmelden" or
\* "Logout", authenticate returns true and no confirmation GET follows,
\* whatever failure marker the body or the final URL carries as well.
C2_LogoutMarkerWins ==
  (post_resp # None /\ ShowsLogout(post_resp[1].text)) =>
     /\ auth = "true"
     /\ confirm_text = None
     /\ calls = <<"_check_logged_in", "authenticate">>
     /\ AfterPost = << DataGet >>

C2_Witness ==
  /\ post_resp # None
  /\ ShowsLogout(post_resp[1].text)
  /\ ShowsFailure(post_resp[1].text)
  /\ Contains(post_resp[1].url, err_eq)
  /\ auth = "true"

\* C3: when the body of the login POST's response has no logout marker and
\* contains "fehler", "falsch" or "nicht erfolgreich" in any letter case, or
\* the final URL contains "err=" or "error=", authenticate returns false at
\* once: no request follows the POST and no exception leaves authenticate.
C3_FailureMarkerFails ==
  (/\ post_resp # None
   /\ ~ShowsLogout(post_resp[1].text)
   /\ \/ ShowsFailure(post_resp[1].text)
      \/ Contains(post_resp[1].url, err_eq)
      \/ Contains(post_resp[1].url, error_eq)) =>
     /\ auth = "false"
     /\ AfterPost = <<>>
     /\ confirm_text = None
     /\ calls = <<"_check_logged_in", "authenticate">>
     /\ outcome = AuthenticationFailed

C3_Witness ==
  /\ post_resp # None
  /\ post_resp[1].text = <<"F","A","L","S","C","H">>
  /\ ~Contains(post_resp[1].url, err_eq)
  /\ auth = "false"

\* the login POST's response decides nothing by itself
Undecided ==
  /\ post_resp # None
  /\ ~ShowsLogout(post_resp[1].text)
  /\ ~ShowsFailure(post_resp[1].text)
  /\ ~Contains(post_resp[1].url, err_eq)
  /\ ~Contains(post_resp[1].url, error_eq)

\* C4 as claimed: an undecided login POST is followed by exactly one
\* confirmation GET of the data page (getdata.php), and authenticate returns
\* true exactly if that page shows the logout marker.
C4_ConfirmsOnDataPage ==
  Undecided =>
     /\ Len(AfterPost) >= 1 /\ AfterPost[1] = DataGet
     /\ confirm_text # None =>
          (auth = "true" <=> ShowsLogout(confirm_text[1]))

\* C4 amended: an undecided login POST is followed by exactly one
\* confirmation GET of the default page (default.php), and authenticate
\* returns true exactly if that page shows the logout marker; the only
\* request after it is get_data's GET of getdata.php, once authenticate
\* returned true.
C4_ConfirmsOnDefaultPage ==
  Undecided =>
     /\ Len(AfterPost) >= 1 /\ AfterPost[1] = ProbeGet
     /\ calls = <<"_check_logged_in", "authenticate", "_check_logged_in">>
     /\ confirm_text = None => auth = "none" /\ Len(AfterPost) = 1
     /\ confirm_text # None =>
          /\ auth \in {"true", "false"}
          /\ auth = "true" <=> ShowsLogout(confirm_text[1])
          /\ AfterPost = IF auth = "true" THEN <<ProbeGet, DataGet>>
                         ELSE <<ProbeGet>>

C4_Witness ==
  /\ Undecided
  /\ confirm_text = Some(Logout)
  /\ auth = "true"

InitForm ==
  /\ pc = "login_page"
  /\ url \in {NormalizeUrl(u) : u \in SuppliedUrls}
  /\ requests = << Get(StartUrl(url)), Get(StartUrl(url)) >>
  /\ calls = << "_check_logged_in", "authenticate" >>
  /\ probe = "false"
  /\ auth = "none"
  /\ outcome = NoOutcome
  /\ probe_text = Some(<<>>)
  /\ login_page = None
  /\ post_resp = None
  /\ confirm_text = None
  /\ data_page = None
  /\ flow = "none"
  /\ BeyondInit

FormPageResponse == LoginPageFrom(FormPages)

NextForm == FormPageResponse

SpecForm == InitForm /\ [][NextForm]_vars

\* the form the login POST was built from, and the POST
TheForm == login_page[1].forms[1]

ThePost == requests[PostIndex]

Posted == PostIndex > 0 /\ login_page # None /\ login_page[1].forms # <<>>

IsNamed(inp) == inp.name # None /\ inp.name # Some(<<>>)

\* the value the stated precedence gives an input
StatedValue(inp) ==
  IF Lower(GetOr(inp.type, <<>>)) = submit THEN GetOr(inp.value, <<>>)
  ELSE IF Contains(Lower(inp.name[1]), pass) THEN Password
  ELSE IF Contains(Lower(inp.name[1]), user)
          \/ Contains(Lower(inp.name[1]), login) THEN Username
  ELSE GetOr(inp.value, <<>>)

\* C6 as claimed: for every form and every ordering of its named inputs, the
\* value POSTed for each field is the one the precedence (submit keeps its
\* value, else "pass" gets the password, else "user"/"login" gets the
\* username, else the declared default) gives that field's own type and name.
C6_EachFieldByOwnTypeAndName ==
  Posted =>
    \A i \in 1..Len(TheForm.inputs) :
       IsNamed(TheForm.inputs[i]) =>
          /\ TheForm.inputs[i].name[1] \in DOMAIN ThePost.data
          /\ ThePost.data[TheForm.inputs[i].name[1]]
               = StatedValue(TheForm.inputs[i])

\* index of the last input that carries the name of input i
LastNamed(inputs, i) ==
  CHOOSE j \in i..Len(inputs) :
     /\ inputs[j].name = inputs[i].name
     /\ \A k \in (j + 1)..Len(inputs) : inputs[k].name # inputs[i].name

\* C6 amended: the value POSTed under each field name is the one the
\* precedence gives the type and name of the last input carrying that name;
\* so in a form whose named inputs carry pairwise distinct names, each
\* field's value depends only on its own type and name, whatever the order.
C6_LastFieldOfEachName ==
  Posted =>
    \A i \in 1..Len(TheForm.inputs) :
       IsNamed(TheForm.inputs[i]) =>
          /\ TheForm.inputs[i].name[1] \in DOMAIN ThePost.data
          /\ ThePost.data[TheForm.inputs[i].name[1]]
               = StatedValue(TheForm.inputs[LastNamed(TheForm.inputs, i)])

C6_Witness ==
  /\ Posted
  /\ Len(TheForm.inputs) = 3
  /\ TheForm.inputs[1].name = Some(<<"U","s","e","r","P","a","s","s">>)
  /\ TheForm.inputs[2].name = Some(<<"c","s","r","f">>)
  /\ TheForm.inputs[3].name = Some(username)
  /\ ThePost.data[<<"U","s","e","r","P","a","s","s">>] = Password
  /\ ThePost.data[<<"c","s","r","f">>] = <<"t","o","k">>
  /\ ThePost.data[username] = Username

\* an input that classification gave the username / the password role
HasUserRole(inp) ==
  /\ IsNamed(inp)
  /\ Lower(GetOr(inp.type, <<>>)) # submit
  /\ ~Contains(Lower(inp.name[1]), pass)
  /\ Contains(Lower(inp.name[1]), user) \/ Contains(Lower(inp.name[1]), login)

HasPassRole(inp) ==
  /\ IsNamed(inp)
  /\ Lower(GetOr(inp.type, <<>>)) # submit
  /\ Contains(Lower(inp.name[1]), pass)

FormNames ==
  { TheForm.inputs[i].name[1] :
      i \in {j \in 1..Len(TheForm.inputs) : IsNamed(TheForm.inputs[j])} }

\* C7: the fields "username", "password" and "login"="Anmelden" are
\* force-inserted when no input got a username or password role; when an
\* input got the username role and an input the password role, the POSTed
\* map holds the form's own named inputs only.
C7_FallbackOnlyWhenUnclassified ==
  Posted =>
    LET anyUser == \E i \in 1..Len(TheForm.inputs) : HasUserRole(TheForm.inputs[i])
        anyPass == \E i \in 1..Len(TheForm.inputs) : HasPassRole(TheForm.inputs[i])
    IN  /\ (~anyUser /\ ~anyPass) =>
             /\ {username, password, login} \subseteq DOMAIN ThePost.data
             /\ ThePost.data[username] = Username
             /\ ThePost.data[password] = Password
             /\ ThePost.data[login] = Anmelden
        /\ (anyUser /\ anyPass) => DOMAIN ThePost.data = FormNames

\* an absolute URL: a scheme, then "://"
IsAbsoluteUrl(a) ==
  \/ StartsWith(a, http \o <<":","/","/">>)
  \/ StartsWith(a, http \o <<"s",":","/","/">>)

\* s without its leading / its trailing separators
RECURSIVE DropLeadingSlashes(_)
DropLeadingSlashes(a) ==
  IF a # <<>> /\ Head(a) = "/" THEN DropLeadingSlashes(Tail(a)) ELSE a

RECURSIVE DropTrailingSlashes(_)
DropTrailingSlashes(a) ==
  IF a # <<>> /\ a[Len(a)] = "/"
  THEN DropTrailingSlashes(SubSeq(a, 1, Len(a) - 1)) ELSE a

\* C9: the POST goes to the login page's own URL when the form declares no
\* or an empty action, to the action verbatim when the action is an absolute
\* URL, and otherwise to the action resolved against the base URL; the base
\* URL ends in exactly one "/", only an absolute URL is taken verbatim, and
\* a relative action starting with "/" yields no doubled separator.
C9_PostTarget ==
  Posted =>
    LET action == TheForm.action
    IN  /\ EndsWith(url, slash) /\ ~EndsWith(url, slash \o slash)
        /\ (action = None \/ action = Some(<<>>)) =>
              ThePost.url = url \o default_php
        /\ (action # None /\ action # Some(<<>>) /\ IsAbsoluteUrl(action[1])) =>
              ThePost.url = action[1]
        /\ (action # None /\ action # Some(<<>>) /\ ~IsAbsoluteUrl(action[1])) =>
              ThePost.url = DropTrailingSlashes(url) \o slash
                              \o DropLeadingSlashes(action[1])

\* C8: a login page without a form ends the attempt in an outcome the caller
\* can tell from a rejected login (which is authenticate returning False);
\* no POST and no further GET is issued, and nothing is retried.
C8_NoFormFoundDistinct ==
  (login_page # None /\ login_page[1].forms = <<>>) =>
     /\ auth # "false"
     /\ PostIndex = 0
     /\ requests = << ProbeGet, ProbeGet >>
     /\ calls = << "_check_logged_in", "authenticate" >>
     /\ pc = "done"

(***************************************************************************)
(* SpecExtract: get_data's parsing over many data pages.  It starts where  *)
(* the probe has returned True and the GET of getdata.php is in flight.    *)
(***************************************************************************)
InitExtract ==
  /\ pc = "data"
  /\ url \in {NormalizeUrl(u) : u \in SuppliedUrls}
  /\ requests = << Get(StartUrl(url)), Get(DataUrl(url)) >>
  /\ calls = << "_check_logged_in" >>
  /\ probe = "true"
  /\ auth = "none"
  /\ outcome = NoOutcome
  /\ probe_text = Some(Abmelden)
  /\ login_page = None
  /\ post_resp = None
  /\ confirm_text = None
  /\ data_page = None
  /\ flow = "none"
  /\ BeyondInit

ExtractPageResponse == DataPageFrom(ExtractPages)

NextExtract == ExtractPageResponse

SpecExtract == InitExtract /\ [][NextExtract]_vars

\* get_data returned a FetchResult
Returned == pc = "done" /\ outcome.kind = "return"

\* some table row of the page has the label as its first trimmed cell and a
\* second cell
HasRow(page, label) ==
  \E i \in 1..Len(page) :
     /\ page[i].tag = "table"
     /\ \E r \in 1..Len(page[i].rows) :
          /\ Len(page[i].rows[r]) > 1
          /\ Strip(page[i].rows[r][1]) = label

\* C10: every FetchResult get_data returns has the key absences with the
\* four sub-keys days, unexcused_days, hours and unexcused_hours; a sub-key
\* whose row the page lacks holds its default, 0 for the day counters and
\* "0" for the hour counters.
C10_AbsencesAlwaysPopulated ==
  Returned =>
    /\ "absences" \in DOMAIN outcome.data
    /\ DOMAIN outcome.data.absences
         = {"days", "unexcused_days", "hours", "unexcused_hours"}
    /\ ~HasRow(data_page[1], Fehltage) => outcome.data.absences["days"] = 0
    /\ ~HasRow(data_page[1], Unentschuldigte_Fehltage) =>
          outcome.data.absences["unexcused_days"] = 0
    /\ ~HasRow(data_page[1], Fehlstunden) =>
          outcome.data.absences["hours"] = <<"0">>
    /\ ~HasRow(data_page[1], Unentschuldigte_Fehlstunden) =>
          outcome.data.absences["unexcused_hours"] = <<"0">>

C10_Witness ==
  /\ Returned
  /\ HasRow(data_page[1], Unentschuldigte_Fehltage)
  /\ ~HasRow(data_page[1], Fehltage)
  /\ HasRow(data_page[1], Fehlstunden)
  /\ outcome.data.absences["unexcused_days"] = 2
  /\ outcome.data.absences["days"] = 0
  /\ outcome.data.absences["hours"] = <<"1",",","5">>
  /\ outcome.data.absences["unexcused_hours"] = <<"0">>

\* a table whose full text contains both "Fehltage" and "Unentschuldigte"
MatchingTable(el) ==
  /\ el.tag = "table"
  /\ Contains(NodeText(el), Fehltage)
  /\ Contains(NodeText(el), Unentschuldigte)

\* the rows of the matching tables of a page, in document order
RECURSIVE MatchingRows(_)
MatchingRows(page) ==
  IF page = <<>> THEN <<>>
  ELSE (IF MatchingTable(Head(page)) THEN Head(page).rows ELSE <<>>)
       \o MatchingRows(Tail(page))

\* the rows among them that carry the label and a second cell
Labelled(rows, label) ==
  { r \in 1..Len(rows) : Len(rows[r]) > 1 /\ Strip(rows[r][1]) = label }

\* the trimmed second cell of the last row carrying the label
LastCell(rows, label) ==
  Strip(rows[CHOOSE r \in Labelled(rows, label) :
                \A q \in Labelled(rows, label) : q <= r][2])

\* a cell int() does not accept
NonNumeric(cell) ==
  LET t    == Strip(cell)
      body == IF t # <<>> /\ t[1] \in {"+", "-"} THEN Tail(t) ELSE t
  IN  body = <<>> \/ \E i \in 1..Len(body) : ~IsDigit(body[i])

\* a "Fehltage" or "Unentschuldigte Fehltage" row of a matching table holds a
\* non-numeric second cell
HasBadDayRow(page) ==
  \E r \in Labelled(MatchingRows(page), Fehltage)
           \cup Labelled(MatchingRows(page), Unentschuldigte_Fehltage) :
     NonNumeric(MatchingRows(page)[r][2])

\* C11: a parse fault inside one extractor pass never aborts the fetch: when
\* a "Fehltage" or "Unentschuldigte Fehltage" row holds a non-numeric second
\* cell, get_data still returns a FetchResult, its absence counters are the
\* defaults, its last-update and grades are extracted, and no error reaches
\* the caller.
C11_ParseFaultSwallowed ==
  (pc = "done" /\ data_page # None /\ HasBadDayRow(data_page[1])) =>
     /\ outcome.kind = "return"
     /\ outcome.data.absences["days"] = 0
     /\ outcome.data.absences["unexcused_days"] = 0
     /\ outcome.data.absences["hours"] = <<"0">>
     /\ outcome.data.absences["unexcused_hours"] = <<"0">>
     /\ DOMAIN outcome.data = {"last_update", "absences", "grades"}

\* C12: the absence pass reads counters only from tables whose full text
\* contains both "Fehltage" and "Unentschuldigte": there a row whose first
\* trimmed cell is exactly "Fehltage", "Unentschuldigte Fehltage",
\* "Fehlstunden" or "Unentschuldigte Fehlstunden" sets days (integer),
\* unexcused_days (integer), hours (text) or unexcused_hours (text) from its
\* second cell; the rows 5, 2, 10, 3 yield {5, 2, "10", "3"}; without such a
\* table the result is {0, 0, "0", "0"}.
C12_AbsenceRowsRead ==
  Returned =>
    LET rows == MatchingRows(data_page[1])
        a    == outcome.data.absences
    IN  /\ a["days"] =
              IF Labelled(rows, Fehltage) = {} THEN 0
              ELSE ParseInt(LastCell(rows, Fehltage))[1]
        /\ a["unexcused_days"] =
              IF Labelled(rows, Unentschuldigte_Fehltage) = {} THEN 0
              ELSE ParseInt(LastCell(rows, Unentschuldigte_Fehltage))[1]
        /\ a["hours"] =
              IF Labelled(rows, Fehlstunden) = {} THEN <<"0">>
              ELSE LastCell(rows, Fehlstunden)
        /\ a["unexcused_hours"] =
              IF Labelled(rows, Unentschuldigte_Fehlstunden) = {} THEN <<"0">>
              ELSE LastCell(rows, Unentschuldigte_Fehlstunden)
        /\ (\E i \in 1..Len(data_page[1]) :
               data_page[1][i] = FullAbsenceTable) =>
              /\ a["days"] = 5 /\ a["unexcused_days"] = 2
              /\ a["hours"] = <<"1","0">> /\ a["unexcused_hours"] = <<"3">>
        /\ rows = <<>> =>
              /\ a["days"] = 0 /\ a["unexcused_days"] = 0
              /\ a["hours"] = <<"0">> /\ a["unexcused_hours"] = <<"0">>

C12_Witness ==
  /\ Returned
  /\ \E i \in 1..Len(data_page[1]) : data_page[1][i] = FullAbsenceTable
  /\ outcome.data.absences["days"] = 5
  /\ outcome.data.absences["unexcused_hours"] = <<"3">>

(***************************************************************************)
(* SpecGrades: the grades walk of get_data, one node of                    *)
(* soup.find_all(['h3', 'b', 'strong', 'table']) at a time.  It starts     *)
(* where the data page has arrived and passes 1 and 2 are done.            *)
(* walk.cursors[k] is current_subject after node k, walk.emitted[k] the    *)
(* entries appended to data["grades"] at node k.                           *)
(***************************************************************************)
InitGrades ==
  /\ pc = "grades"
  /\ url \in {NormalizeUrl(u) : u \in SuppliedUrls}
  /\ requests = << Get(StartUrl(url)), Get(DataUrl(url)) >>
  /\ calls = << "_check_logged_in" >>
  /\ probe = "true"
  /\ auth = "none"
  /\ outcome = NoOutcome
  /\ probe_text = Some(Abmelden)
  /\ login_page = None
  /\ post_resp = None
  /\ confirm_text = None
  /\ \E page \in GradePages :
       /\ data_page = Some(page)
       /\ walk = [NoWalk EXCEPT !.page = page]
  /\ flow = "none"
  /\ update = NoUpdate
  /\ entities = None
  /\ sess = NoSess

\* one iteration of "for el in elements"
WalkStep ==
  /\ pc = "grades"
  /\ walk.i < Len(walk.page)
  /\ LET w == GradeStep(walk, walk.page[walk.i + 1])
     IN  walk' = [w EXCEPT
                    !.i = @ + 1,
                    !.cursors = Append(@, w.current_subject),
                    !.emitted = Append(@, SubSeq(w.grades, Len(walk.grades) + 1,
                                                 Len(w.grades)))]
  /\ UNCHANGED <<pc, url, requests, calls, probe, auth, outcome, received,
                 flow, update, entities, sess>>

\* the loop is over: return data
WalkEnd ==
  /\ pc = "grades"
  /\ walk.i = Len(walk.page)
  /\ pc' = "done"
  /\ outcome' = Extract(walk.page)
  /\ UNCHANGED <<url, requests, calls, probe, auth, received, flow, beyond>>

NextGrades == WalkStep \/ WalkEnd

SpecGrades == InitGrades /\ [][NextGrades]_vars

IsHeading(el) == el.tag \in {"h3", "b", "strong"}

\* a heading the walk is to ignore
IsNoise(el) ==
  /\ IsHeading(el)
  /\ \/ Len(Strip(el.text)) < 3
     \/ Contains(Strip(el.text), Notenspiegel)
     \/ Contains(Strip(el.text), Endnoten)
     \/ Contains(Strip(el.text), Legende)

\* the cursor before node k
CursorBefore(k) == IF k = 1 THEN None ELSE walk.cursors[k - 1]

\* all entries of a sequence carry the subject
AllUnder(entries, subject) ==
  \A j \in 1..Len(entries) : Some(entries[j].subject) = subject

\* C13: a heading shorter than 3 characters or containing "Notenspiegel",
\* "Endnoten" or "Legende" never becomes the current subject and leaves the
\* cursor as it was; a grade table right after such a heading is attributed
\* to the subject before the heading, and emits nothing if there was none.
C13_NoiseHeadingIgnored ==
  \A k \in 1..walk.i :
     /\ IsNoise(walk.page[k]) =>
          /\ walk.cursors[k] = CursorBefore(k)
          /\ walk.cursors[k] # Some(Strip(walk.page[k].text))
          /\ walk.emitted[k] = <<>>
     /\ (k > 1 /\ walk.page[k].tag = "table" /\ IsNoise(walk.page[k - 1])) =>
          /\ AllUnder(walk.emitted[k], CursorBefore(k - 1))
          /\ CursorBefore(k - 1) = None => walk.emitted[k] = <<>>

C13_Witness ==
  /\ walk.i = 3
  /\ walk.page[1] = Heading("b", Mathematik)
  /\ walk.page[2] = Heading("h3", Notenspiegel)
  /\ walk.page[3] = GradeTable
  /\ Len(walk.emitted[3]) = 1
  /\ walk.emitted[3][1].subject = Mathematik

\* the header cells of a table include both "Zensur" and "Datum"
IsGradeTable(el) ==
  /\ el.tag = "table"
  /\ \E h \in 1..Len(el.headers) : Strip(el.headers[h]) = Zensur
  /\ \E h \in 1..Len(el.headers) : Strip(el.headers[h]) = Datum

\* the rows that yield an entry: at least 3 cells, a non-empty trimmed grade
GradedRows(el) ==
  { r \in 1..Len(el.rows) :
      Len(el.rows[r]) >= 3 /\ Strip(el.rows[r][2]) # <<>> }

\* the j-th of them, in row order
NthGraded(el, j) ==
  CHOOSE r \in GradedRows(el) :
     Cardinality({q \in GradedRows(el) : q <= r}) = j

LastSubject(k) ==
  LET hs == {h \in 1..k : IsHeading(walk.page[h]) /\ ~IsNoise(walk.page[h])}
  IN  IF hs = {} THEN None
      ELSE Some(Strip(walk.page[CHOOSE h \in hs : \A g \in hs : g <= h].text))

\* C18: the subject cursor is never cleared by a table: after every node it
\* is the text of the most recent non-noise heading so far (unset if there
\* was none), so the entries of every grade table between a heading H and
\* the next non-noise heading are attributed to H.
C18_CursorSurvivesTables ==
  /\ walk.current_subject = IF walk.i = 0 THEN None ELSE walk.cursors[walk.i]
  /\ \A k \in 1..walk.i :
       /\ walk.cursors[k] = LastSubject(k)
       /\ walk.page[k].tag = "table" => walk.cursors[k] = CursorBefore(k)
       /\ AllUnder(walk.emitted[k], LastSubject(k))

C18_Witness ==
  /\ walk.i = 3
  /\ walk.page[1] = Heading("strong", <<" ","B","i","o"," ">>)
  /\ walk.page[2] = GradeTable
  /\ walk.page[3] = GradeTable
  /\ Len(walk.emitted[2]) = 1
  /\ Len(walk.emitted[3]) = 1
  /\ walk.emitted[3][1].subject = <<"B","i","o">>

(***************************************************************************)
(* SpecFlow: the config flow's user step.  validate_input constructs a     *)
(* client and awaits authenticate; async_step_user maps the result.        *)
(***************************************************************************)
InitFlow ==
  /\ pc = "idle"
  /\ url \in {NormalizeUrl(u) : u \in SuppliedUrls}
  /\ requests = <<>>
  /\ calls = <<>>
  /\ probe = "none"
  /\ auth = "none"
  /\ outcome = NoOutcome
  /\ probe_text = None
  /\ login_page = None
  /\ post_resp = None
  /\ confirm_text = None
  /\ data_page = None
  /\ flow = "form"
  /\ BeyondInit

\* async_step_user with user_input: validate_input enters authenticate
FlowBegin ==
  /\ pc = "idle"
  /\ flow = "form"
  /\ flow' = "pending"
  /\ pc' = "login_page"
  /\ calls' = Append(calls, "authenticate")
  /\ requests' = Append(requests, Get(StartUrl(url)))
  /\ UNCHANGED <<url, probe, auth, outcome, received, beyond>>

NextFlow ==
  \/ FlowBegin
  \/ LoginPageResponse
  \/ PostResponse
  \/ ConfirmResponse
  \/ TransportFault

SpecFlow == InitFlow /\ [][NextFlow]_vars

\* C15: in the credential validation, authenticate returning false always
\* yields the form error "invalid_auth", never "unknown"; an exception
\* raised during validation yields "unknown", never "invalid_auth"; the
\* config entry is created exactly if authenticate returned true.
C15_FlowErrorKeys ==
  /\ flow \in {"form", "pending"} <=> pc # "done"
  /\ pc = "done" =>
       /\ auth = "false" <=> flow = "invalid_auth"
       /\ outcome = ClientError <=> flow = "unknown"
       /\ auth = "true" <=> flow = "create_entry"

C15_Witness ==
  /\ flow = "invalid_auth"
  /\ auth = "false"
  /\ post_resp # None
  /\ ShowsFailure(post_resp[1].text)

(***************************************************************************)
(* Properties of the coordinator and the sensor platform                   *)
(***************************************************************************)
\* C16: the sensor platform publishes one value for last_update, one for
\* each of the four absence counters and one per distinct subject of
\* grades; every key of a FetchResult's absences is reachable through a
\* published value.
C16_EveryCounterPublished ==
  (entities # None /\ update.kind = "return") =>
     /\ entities[1].values = {"last_update"}
     /\ entities[1].absences
          = {"days", "unexcused_days", "hours", "unexcused_hours"}
     /\ entities[1].subjects
          = {update.data.grades[i].subject : i \in 1..Len(update.data.grades)}
     /\ DOMAIN update.data.absences \subseteq entities[1].absences

\* C17: a transport fault during get_data reaches the caller as the
\* communication error that wraps its cause, and that error kind is not the
\* one a rejected login (authenticate returning false) is reported with.
C17_FaultDistinctFromRejectedLogin ==
  update # NoUpdate =>
     /\ outcome = ClientError =>
          /\ update.kind = "raise"
          /\ update.exc = "UpdateFailed"
          /\ update.cause = "ClientError"
     /\ outcome = AuthenticationFailed => update.exc # "UpdateFailed"

\* the kind of each request: "default" for a GET of default.php, "data" for
\* a GET of getdata.php, "post" for the login POST
Kinds ==
  [i \in 1..Len(requests) |->
     IF requests[i].method = "POST" THEN "post"
     ELSE IF requests[i].url = DataUrl(url) THEN "data"
     ELSE IF requests[i].url = StartUrl(url) THEN "default"
     ELSE "other"]

\* login probe GET, login-page GET, login POST, confirmation GET, data GET
FullOrder == <<"default", "default", "post", "default", "data">>

\* a is b with some elements left out
RECURSIVE IsSubsequence(_, _)
IsSubsequence(a, b) ==
  IF a = <<>> THEN TRUE
  ELSE IF b = <<>> THEN FALSE
  ELSE IF Head(a) = Head(b) THEN IsSubsequence(Tail(a), Tail(b))
  ELSE IsSubsequence(a, Tail(b))

NoRetry ==
  /\ Cardinality({i \in 1..Len(calls) : calls[i] = "authenticate"}) <= 1
  /\ Len(requests) <= 5
  /\ IsSubsequence(Kinds, FullOrder)
  /\ Cardinality({i \in 1..Len(requests) : requests[i].method = "POST"}) <= 1
  /\ pc = "done" => outcome.kind \in {"return", "raise"}

\* C20: one get_data call has no retry loop: it enters authenticate at most
\* once and issues at most five requests, in the order login probe GET,
\* login-page GET, login POST, confirmation GET, data-page GET, with at most
\* one POST; and it ends with a result or an error whenever every request
\* is answered.
C20_NoRetryAndTerminates == []NoRetry /\ <>(pc = "done")

C20_Witness ==
  /\ pc = "done"
  /\ outcome.kind = "return"
  /\ Kinds = FullOrder

(***************************************************************************)
(* SpecSession: the clients and the HTTP session they are constructed on.  *)
(* The portal keeps the login in the session's cookie: a login it accepts  *)
(* makes the cookie a logged-in one, and default.php shows the logout      *)
(* marker exactly to a logged-in cookie.                                   *)
(***************************************************************************)
InitSession ==
  /\ pc = "idle"
  /\ url \in {NormalizeUrl(u) : u \in SuppliedUrls}
  /\ requests = <<>>
  /\ calls = <<>>
  /\ probe = "none"
  /\ auth = "none"
  /\ outcome = NoOutcome
  /\ probe_text = None
  /\ login_page = None
  /\ post_resp = None
  /\ confirm_text = None
  /\ data_page = None
  /\ flow = "none"
  /\ BeyondInit

SessFrame ==
  UNCHANGED <<pc, url, requests, calls, probe, auth, outcome, received, flow,
              update, entities, walk>>

\* validate_input / HomeInfoPointDataUpdateCoordinator.__init__ construct
\* their client on async_get_clientsession(hass)
Construct(c) ==
  /\ sess.session[c] = None
  /\ sess' = [sess EXCEPT !.session[c] = Some(async_get_clientsession)]
  /\ SessFrame

ValidateInputConstructs == Construct("validate_input")

CoordinatorConstructs == Construct("coordinator")

\* authenticate on a client: the portal accepts or rejects the login
SessAuthenticate ==
  /\ \E c \in Clients, accepted \in BOOLEAN :
       /\ sess.session[c] # None
       /\ sess' = [sess EXCEPT
                     !.jar[sess.session[c][1]] =
                        IF accepted THEN "logged_in" ELSE @,
                     !.auth[c] = IF accepted THEN "true" ELSE "false"]
  /\ SessFrame

\* _check_logged_in on a client
SessCheckLoggedIn ==
  /\ \E c \in Clients :
       /\ sess.session[c] # None
       /\ sess' = [sess EXCEPT
                     !.seen[c] =
                        IF sess.jar[sess.session[c][1]] = "logged_in"
                        THEN "true" ELSE "false"]
  /\ SessFrame

\* the portal times the login out
PortalExpires ==
  /\ \E x \in Sessions :
       /\ sess.jar[x] = "logged_in"
       /\ sess' = [sess EXCEPT !.jar[x] = "anonymous"]
  /\ SessFrame

NextSession ==
  \/ ValidateInputConstructs
  \/ CoordinatorConstructs
  \/ SessAuthenticate
  \/ SessCheckLoggedIn
  \/ PortalExpires

SpecSession == InitSession /\ [][NextSession]_vars

\* C19: the HTTP session a client uses is owned by that client alone: no
\* two clients (the validation client and the coordinator's client) hold
\* the same session, so an authenticate on one cannot change the logged-in
\* state another one observes.
C19_SessionOwnedByOneClient ==
  \A c \in Clients, d \in Clients :
     (c # d /\ sess.session[c] # None /\ sess.session[d] # None) =>
        sess.session[c] # sess.session[d]

(***************************************************************************)
(* The data page of a session the portal has ended                         *)
(***************************************************************************)
\* get_data got a data page that does not show the logout marker: the
\* portal ended the session after the probe or authenticate succeeded
LoggedOutDataPage ==
  /\ pc = "done"
  /\ data_page # None
  /\ ~ShowsLogout(PageText(data_page[1]))

\* no timestamp text, no table and no heading
NoDataMarkup(page) ==
  /\ ~Contains(PageText(page), aktualisiert_am)
  /\ \A i \in 1..Len(page) : page[i].tag = "text"

\* the data GET is the last request and the only one of its kind, and
\* authenticate was entered only if the probe said logged out
NoReauthentication ==
  /\ requests[Len(requests)] = DataGet
  /\ Cardinality({i \in 1..Len(requests) : requests[i] = DataGet}) = 1
  /\ Cardinality({i \in 1..Len(calls) : calls[i] = "authenticate"})
       = IF probe = "true" THEN 0 ELSE 1
  /\ outcome # AuthenticationFailed

\* C21: get_data never checks the data page for the logout marker: when the
\* portal ends the session after the probe (or authenticate) succeeded and
\* before the data GET, get_data neither authenticates again nor raises; it
\* returns a FetchResult built from the page that came back, which for a
\* page without data markup has last_update "Connected", the default
\* absences and no grades.
C21_LoggedOutPageReturned ==
  LoggedOutDataPage =>
     /\ NoReauthentication
     /\ outcome.kind = "return"
     /\ NoDataMarkup(data_page[1]) =>
          outcome.data = [last_update |-> Connected,
                          absences    |-> [days |-> 0, unexcused_days |-> 0,
                                           hours |-> <<"0">>,
                                           unexcused_hours |-> <<"0">>],
                          grades      |-> <<>>]

====
